---- MODULE Spec2Model ----
(***************************************************************************)
(* A model of the blog service of src/src/main.go: the posts table, the    *)
(* upload directory and the request handlers (create, get-one, list) as a  *)
(* state machine whose steps are the handlers' accesses to the table and   *)
(* to the upload directory.                                                *)
(*                                                                         *)
(* A Go string is a sequence of characters, each a one-element TLA+        *)
(* string; the characters that take more than one byte in UTF-8 are named  *)
(* by their code point ("U+00E9").  The inputs are valid UTF-8 text.       *)
(***************************************************************************)
EXTENDS Integers, Sequences, FiniteSets, TLC

\* ------------------------------------------------------------------------
\* Bounds of the model.

\* The posts table holds at most MaxPosts rows: a Create is not started
\* when the table is full.
MaxPosts == 2

\* The width of the machine integer (Go's int), scaled down from 64 bits:
\* the arithmetic of the list handler is the same modulo 2^IntBits.
IntBits == 6

\* ------------------------------------------------------------------------
\* Program constants.

\* len(tag) > 50
MaxTagLen == 50
\* len(blog.MetaDescription) > 160
MaxMetaLen == 160
\* len(blog.Title) > 100
MaxTitleLen == 100
\* maxFileSize = 10 << 20
maxFileSize == 10485760
\* pageSize = 10 when pageSize < 1
DefaultPageSize == 10

\* ------------------------------------------------------------------------
\* Strings.

Rep(ch, n) == [i \in 1..n |-> ch]

Letters ==
    {"a", "b", "c", "d", "e", "f", "g", "h", "i", "j", "k", "l", "m",
     "n", "o", "p", "q", "r", "s", "t", "u", "v", "w", "x", "y", "z",
     "A", "B", "C", "D", "E", "F", "G", "H", "I", "J", "K", "L", "M",
     "N", "O", "P", "Q", "R", "S", "T", "U", "V", "W", "X", "Y", "Z"}

Digits == {"0", "1", "2", "3", "4", "5", "6", "7", "8", "9"}

\* unicode.IsSpace, as strings.TrimSpace uses it ("U+00A0" is the no-break space)
IsSpace(ch) == ch \in {" ", "\t", "\n", "\r", "U+0085", "U+00A0"}

\* the number of bytes of a character in UTF-8: Go's len counts bytes
CharBytes(ch) == IF ch \in {"U+0085", "U+00A0", "U+00E9"} THEN 2 ELSE 1

\* len(s): the number of bytes of s
ByteLen(s) ==
    LET n(k) == Cardinality({i \in 1..Len(s) : CharBytes(s[i]) = k})
    IN  n(1) + 2 * n(2) + 3 * n(3) + 4 * n(4)

\* strings.TrimSpace: s without its leading and trailing white space
TrimSpace(s) ==
    LET keep == {i \in 1..Len(s) : ~IsSpace(s[i])} IN
    IF keep = {} THEN <<>>
    ELSE SubSeq(s, CHOOSE i \in keep : \A j \in keep : i <= j,
                   CHOOSE i \in keep : \A j \in keep : j <= i)

\* strings.Split(s, ","): the pieces between the commas, the empty ones
\* included; one (empty) piece for the empty string
Split(s) ==
    LET commas == {i \in 1..Len(s) : s[i] = ","}
        \* the k-th comma; position 0 before the first, Len(s) + 1 after the last
        At(k) == IF k = 0 THEN 0
                 ELSE IF k > Cardinality(commas) THEN Len(s) + 1
                 ELSE CHOOSE i \in commas : Cardinality({j \in commas : j < i}) = k - 1
    IN  [k \in 1..(Cardinality(commas) + 1) |-> SubSeq(s, At(k - 1) + 1, At(k) - 1)]

\* strings.Contains
Contains(s, sub) ==
    \E i \in 0..(Len(s) - Len(sub)) : SubSeq(s, i + 1, i + Len(sub)) = sub

\* a url_keyword pattern that asks for a non-empty string only
MatchUrlKeywordAny(s) == s # <<>>

UrlKeywordChars == Letters \cup Digits \cup {"-"}

\* regexp `^[a-zA-Z0-9-]+$` (Go's $ matches at the end of the text only)
MatchUrlKeyword(s) ==
    /\ s # <<>>
    /\ \A i \in 1..Len(s) : s[i] \in UrlKeywordChars

\* ------------------------------------------------------------------------
\* Go slices of strings: the nil slice and the slices that append made.

NilSlice == [isNil |-> TRUE, elems |-> <<>>]

SliceOf(seq) == [isNil |-> FALSE, elems |-> seq]

\* append(tags, tag)
AppendSlice(sl, x) == SliceOf(Append(sl.elems, x))

\* ------------------------------------------------------------------------
\* encoding/json for []string.

\* the escapes json.Marshal writes inside a string (HTML-safe by default)
EscapeChar(ch) ==
    CASE ch = "\"" -> <<"\\", "\"">>
      [] ch = "\\" -> <<"\\", "\\">>
      [] ch = "\n" -> <<"\\", "n">>
      [] ch = "\r" -> <<"\\", "r">>
      [] ch = "\t" -> <<"\\", "t">>
      [] ch = "<" -> <<"\\", "u", "0", "0", "3", "c">>
      [] ch = ">" -> <<"\\", "u", "0", "0", "3", "e">>
      [] ch = "&" -> <<"\\", "u", "0", "0", "2", "6">>
      [] OTHER -> <<ch>>

\* the escapes of the characters of s, one after the other (the string is
\* halved rather than walked, which keeps the evaluation shallow)
RECURSIVE EscapeString(_)
EscapeString(s) ==
    IF s = <<>> THEN <<>>
    ELSE IF Len(s) = 1 THEN EscapeChar(s[1])
    ELSE LET h == Len(s) \div 2 IN
         EscapeString(SubSeq(s, 1, h)) \o EscapeString(SubSeq(s, h + 1, Len(s)))

QuoteString(s) == <<"\"">> \o EscapeString(s) \o <<"\"">>

RECURSIVE JoinQuoted(_)
JoinQuoted(seq) ==
    IF seq = <<>> THEN <<>>
    ELSE IF Len(seq) = 1 THEN QuoteString(seq[1])
    ELSE QuoteString(seq[1]) \o <<",">> \o JoinQuoted(Tail(seq))

\* json.Marshal(blog.Tags): null for the nil slice
jsonMarshal(sl) ==
    IF sl.isNil THEN <<"n", "u", "l", "l">>
    ELSE <<"[">> \o JoinQuoted(sl.elems) \o <<"]">>

JsonFail == [ok |-> FALSE, val |-> NilSlice, next |-> 0]

\* the character a \uXXXX escape stands for (the ones json.Marshal writes)
UnicodeEscape(hex) ==
    CASE hex = <<"0", "0", "3", "c">> -> "<"
      [] hex = <<"0", "0", "3", "e">> -> ">"
      [] hex = <<"0", "0", "2", "6">> -> "&"
      [] OTHER -> "U+FFFD"

SimpleEscape(ch) ==
    CASE ch = "n" -> "\n"
      [] ch = "r" -> "\r"
      [] ch = "t" -> "\t"
      [] OTHER -> ch

\* a JSON string from position i, just after its opening quote; the
\* characters up to the next quote, backslash or control character are taken
\* in one step
RECURSIVE ParseString(_, _, _)
ParseString(t, i, acc) ==
    LET special == {k \in i..Len(t) : t[k] \in {"\"", "\\", "\n", "\r", "\t"}} IN
    IF special = {} THEN [ok |-> FALSE, val |-> <<>>, next |-> Len(t) + 1]
    ELSE LET j == CHOOSE k \in special : \A m \in special : k <= m
             run == acc \o SubSeq(t, i, j - 1)
         IN  IF t[j] = "\"" THEN [ok |-> TRUE, val |-> run, next |-> j + 1]
             ELSE IF t[j] \in {"\n", "\r", "\t"} THEN [ok |-> FALSE, val |-> <<>>, next |-> j]
             ELSE IF j + 1 > Len(t) THEN [ok |-> FALSE, val |-> <<>>, next |-> j]
             ELSE IF t[j + 1] \in {"\"", "\\", "/", "n", "r", "t"}
                  THEN ParseString(t, j + 2, Append(run, SimpleEscape(t[j + 1])))
             ELSE IF t[j + 1] = "u" /\ j + 5 <= Len(t)
                  THEN ParseString(t, j + 6, Append(run, UnicodeEscape(SubSeq(t, j + 2, j + 5))))
             ELSE [ok |-> FALSE, val |-> <<>>, next |-> j]

RECURSIVE SkipSpace(_, _)
SkipSpace(t, i) ==
    IF i <= Len(t) /\ t[i] \in {" ", "\t", "\n", "\r"} THEN SkipSpace(t, i + 1) ELSE i

\* the elements of a JSON array from position i, after "[" or after a comma
RECURSIVE ParseElems(_, _, _)
ParseElems(t, i, acc) ==
    LET j == SkipSpace(t, i) IN
    IF j > Len(t) \/ t[j] # "\"" THEN JsonFail
    ELSE LET s == ParseString(t, j + 1, <<>>)
             k == SkipSpace(t, s.next)
         IN  IF ~s.ok \/ k > Len(t) THEN JsonFail
             ELSE IF t[k] = "," THEN ParseElems(t, k + 1, Append(acc, s.val))
             ELSE IF t[k] = "]"
                  THEN [ok |-> TRUE, val |-> SliceOf(Append(acc, s.val)), next |-> k + 1]
             ELSE JsonFail

\* json.Unmarshal(text, &tags) for tags []string, tags being nil before:
\* null leaves the slice nil, an array of strings fills it, anything else
\* is an error
jsonUnmarshal(t) ==
    LET i == SkipSpace(t, 1) IN
    IF i + 3 <= Len(t) /\ SubSeq(t, i, i + 3) = <<"n", "u", "l", "l">>
    THEN IF SkipSpace(t, i + 4) > Len(t)
         THEN [ok |-> TRUE, val |-> NilSlice]
         ELSE [ok |-> FALSE, val |-> NilSlice]
    ELSE IF i > Len(t) \/ t[i] # "[" THEN [ok |-> FALSE, val |-> NilSlice]
    ELSE LET j == SkipSpace(t, i + 1) IN
         IF j <= Len(t) /\ t[j] = "]"
         THEN IF SkipSpace(t, j + 1) > Len(t)
              THEN [ok |-> TRUE, val |-> SliceOf(<<>>)]
              ELSE [ok |-> FALSE, val |-> NilSlice]
         ELSE LET r == ParseElems(t, j, <<>>) IN
              IF r.ok /\ SkipSpace(t, r.next) > Len(t)
              THEN [ok |-> TRUE, val |-> r.val]
              ELSE [ok |-> FALSE, val |-> NilSlice]

\* ------------------------------------------------------------------------
\* Machine integers.

MaxInt == 2 ^ (IntBits - 1) - 1

MinInt == -(2 ^ (IntBits - 1))

\* the value of an int after an operation that may overflow
Wrap(x) == ((x + 2 ^ (IntBits - 1)) % (2 ^ IntBits)) - 2 ^ (IntBits - 1)

\* Go's integer division truncates toward zero (b > 0 here)
Quo(a, b) == IF a >= 0 THEN a \div b ELSE -((-a) \div b)

DigitVal(ch) ==
    CASE ch = "0" -> 0 [] ch = "1" -> 1 [] ch = "2" -> 2 [] ch = "3" -> 3
      [] ch = "4" -> 4 [] ch = "5" -> 5 [] ch = "6" -> 6 [] ch = "7" -> 7
      [] ch = "8" -> 8 [] OTHER -> 9

\* the digits of s as a number, cut off one above MaxInt (the value is
\* out of range from there on)
RECURSIVE DigitsVal(_, _)
DigitsVal(s, acc) ==
    IF s = <<>> THEN acc
    ELSE LET v == acc * 10 + DigitVal(Head(s)) IN
         DigitsVal(Tail(s), IF v > MaxInt + 1 THEN MaxInt + 1 ELSE v)

\* strconv.Atoi with its error dropped (page, _ := strconv.Atoi(...)):
\* 0 for a string that is no decimal number, the nearest int for a number
\* out of range
Atoi(s) ==
    LET neg == s # <<>> /\ Head(s) = "-"
        body == IF s # <<>> /\ Head(s) \in {"-", "+"} THEN Tail(s) ELSE s
    IN  IF body = <<>> \/ \E i \in 1..Len(body) : body[i] \notin Digits THEN 0
        ELSE LET v == DigitsVal(body, 0) IN
             IF neg THEN -v
             ELSE IF v > MaxInt THEN MaxInt ELSE v

DigitChar(d) == <<"0", "1", "2", "3", "4", "5", "6", "7", "8", "9">>[d + 1]

\* the decimal numeral of n >= 0
RECURSIVE Itoa(_)
Itoa(n) == IF n < 10 THEN <<DigitChar(n)>> ELSE Append(Itoa(n \div 10), DigitChar(n % 10))

\* ------------------------------------------------------------------------
\* The Validator (validateBlogPost).

\* the priorities the validator accepts (validPriorities)
StrMaximum == <<"m", "a", "x", "i", "m", "u", "m">>

StrHigh == <<"h", "i", "g", "h">>

StrNormal == <<"n", "o", "r", "m", "a", "l">>

\* a priority list that lets a fourth value through
validPrioritiesWithUrgent ==
    {StrMaximum, StrHigh, StrNormal, <<"u", "r", "g", "e", "n", "t">>}

validPriorities == {StrMaximum, StrHigh, StrNormal}

\* var blog BlogPost: the zero value
ZeroBlog ==
    [ID |-> 0, Title |-> <<>>, MetaDescription |-> <<>>, FocusKeyword |-> <<>>,
     UrlKeyword |-> <<>>, Image |-> "", Tags |-> NilSlice, Topic |-> <<>>,
     Service |-> <<>>, Industry |-> <<>>, Priority |-> <<>>, Description |-> <<>>]

\* the pieces of the "tags" fields, in order: each field split on commas
RECURSIVE TagPieces(_)
TagPieces(rawTags) ==
    IF rawTags = <<>> THEN <<>> ELSE Split(Head(rawTags)) \o TagPieces(Tail(rawTags))

\* the loop over the pieces: a piece is trimmed, dropped when empty, and
\* ends the validation when longer than 50 bytes
RECURSIVE CollectTags(_, _)
CollectTags(pieces, tags) ==
    IF pieces = <<>> THEN [err |-> FALSE, tags |-> tags]
    ELSE LET tag == TrimSpace(Head(pieces)) IN
         IF tag = <<>> THEN CollectTags(Tail(pieces), tags)
         ELSE IF ByteLen(tag) > MaxTagLen THEN [err |-> TRUE, tags |-> tags]
         ELSE CollectTags(Tail(pieces), AppendSlice(tags, tag))

\* a tag loop that reads the first "tags" field only, as r.FormValue would
ProcessTagsFirstField(rawTags) ==
    CollectTags(IF rawTags = <<>> THEN <<>> ELSE Split(Head(rawTags)), NilSlice)

\* r.Form["tags"] processed: var tags []string stays nil when nothing is appended
ProcessTags(rawTags) == CollectTags(TagPieces(rawTags), NilSlice)

\* the existence query of the validator, on a table t
UrlKeywordExists(t, kw) == \E i \in 1..Len(t) : t[i].url_keyword = kw

\* validateBlogPost(r) up to the read of the store: the fields are trimmed
\* and checked rule by rule.  The result holds the error ("" for none) and
\* the blog.
validateFields(r) ==
    LET title == TrimSpace(r.title)
        description == TrimSpace(r.description)
        urlKeyword == TrimSpace(r.url_keyword)
        priority == TrimSpace(r.priority)
        tags == ProcessTags(r.tags)
        meta == TrimSpace(r.meta_description)
        blog == [ZeroBlog EXCEPT
                    !.Title = title, !.Description = description,
                    !.UrlKeyword = urlKeyword,
                    !.Priority = IF priority = <<>> THEN StrNormal ELSE priority,
                    !.Tags = tags.tags, !.MetaDescription = meta,
                    !.FocusKeyword = TrimSpace(r.focus_keyword),
                    !.Topic = TrimSpace(r.topic),
                    !.Service = TrimSpace(r.service),
                    !.Industry = TrimSpace(r.industry)]
        Fail(msg) == [err |-> msg, blog |-> blog]
    IN  IF title = <<>> THEN Fail("title is required")
        ELSE IF description = <<>> THEN Fail("description is required")
        ELSE IF urlKeyword = <<>> THEN Fail("url_keyword is required")
        ELSE IF ~MatchUrlKeyword(urlKeyword)
             THEN Fail("url_keyword must contain only letters, numbers, and hyphens")
        ELSE IF priority # <<>> /\ priority \notin validPriorities
             THEN Fail("invalid priority value: must be maximum, high, or normal")
        ELSE IF tags.err THEN Fail("tag length cannot exceed 50 characters")
        ELSE IF ByteLen(meta) > MaxMetaLen
             THEN Fail("meta description cannot exceed 160 characters")
        ELSE IF ByteLen(title) > MaxTitleLen
             THEN Fail("title cannot exceed 100 characters")
        ELSE Fail("")

\* ------------------------------------------------------------------------
\* The Upload Handler (validateAndSaveFile) and the upload directory.

\* allowedImageTypes = "image/jpeg,image/png,image/gif"
allowedImageTypes ==
    <<"i", "m", "a", "g", "e", "/", "j", "p", "e", "g", ",",
      "i", "m", "a", "g", "e", "/", "p", "n", "g", ",",
      "i", "m", "a", "g", "e", "/", "g", "i", "f">>

\* The content of a file is a sequence of segments, each the bytes
\* from..to of one upload.
NoFile == [exists |-> FALSE, data |-> <<>>]

RECURSIVE DropBytes(_, _)
DropBytes(segs, n) ==
    IF segs = <<>> \/ n <= 0 THEN segs
    ELSE LET h == Head(segs)
             size == h.to - h.from + 1
         IN  IF size <= n THEN DropBytes(Tail(segs), n - size)
             ELSE <<[h EXCEPT !.from = h.from + n]>> \o Tail(segs)

\* os.OpenFile(path, O_WRONLY|O_CREATE, 0644) and io.Copy: the upload is
\* written from offset 0 over what the file held, and the file is not truncated
WriteFile(old, file) ==
    [exists |-> TRUE,
     data |-> IF file.size = 0 THEN old.data
              ELSE <<[src |-> file.data, from |-> 1, to |-> file.size]>>
                   \o DropBytes(old.data, file.size)]

\* filepath.Join("uploads", filepath.Clean(header.Filename))
UploadPath(filename) == "uploads/" \o filename

\* a removal that removes nothing
RemoveFileNever(fs, path, removeOk) == fs

\* os.Remove(path); removeOk: the removal succeeds
RemoveFile(fs, path, removeOk) ==
    IF removeOk THEN [fs EXCEPT ![path] = NoFile] ELSE fs

\* the ways the writing of a file may go: os.OpenFile succeeds or not,
\* io.Copy succeeds or fails after it wrote some of the bytes (here all but
\* the last), and the os.Remove that follows a failed copy succeeds or not
UploadOutcomes(file) ==
    {[openOk |-> FALSE, copyOk |-> FALSE, written |-> 0, removeOk |-> FALSE],
     [openOk |-> TRUE, copyOk |-> TRUE, written |-> file.size, removeOk |-> FALSE]}
    \cup {[openOk |-> TRUE, copyOk |-> FALSE, written |-> file.size - 1, removeOk |-> r] :
             r \in BOOLEAN}

\* validateAndSaveFile(file, header) on the upload directory fs, the
\* writing going as o says.  The result holds the error ("" for nil), the
\* stored path, the upload directory afterwards, and whether the file system
\* failed.
validateAndSaveFile(file, fs, o) ==
    LET path == UploadPath(file.filename)
        openOk == o.openOk
        copyOk == o.copyOk
        partial == [fs EXCEPT ![path] = WriteFile(fs[path], [file EXCEPT !.size = o.written])]
    IN
    IF file.size > maxFileSize
    THEN [err |-> "file size exceeds maximum allowed size", path |-> "", fs |-> fs,
          failed |-> FALSE]
    ELSE IF ~Contains(allowedImageTypes, file.contentType)
    THEN [err |-> "unsupported file type", path |-> "", fs |-> fs, failed |-> FALSE]
    ELSE IF ~openOk
    THEN [err |-> "open failed", path |-> "", fs |-> fs, failed |-> TRUE]
    ELSE IF ~copyOk
    THEN [err |-> "copy failed", path |-> "",
          fs |-> RemoveFile(partial, path, o.removeOk), failed |-> TRUE]
    ELSE [err |-> "", path |-> path,
          fs |-> [fs EXCEPT ![path] = WriteFile(fs[path], file)], failed |-> FALSE]

\* ------------------------------------------------------------------------
\* The Post Store (the blog_posts table, a sequence of rows in rowid order).

\* created_at, updated_at DATETIME DEFAULT CURRENT_TIMESTAMP
CurrentTimestamp == "CURRENT_TIMESTAMP"

\* an insert that leaves the topic column out
InsertRowNoTopic(t, blog, tagsJSON) ==
    [id |-> Len(t) + 1, title |-> blog.Title,
     meta_description |-> blog.MetaDescription,
     focus_keyword |-> blog.FocusKeyword, url_keyword |-> blog.UrlKeyword,
     image |-> blog.Image, tags |-> tagsJSON, topic |-> <<>>,
     service |-> blog.Service, industry |-> blog.Industry,
     priority |-> blog.Priority, description |-> blog.Description,
     created_at |-> CurrentTimestamp, updated_at |-> CurrentTimestamp]

\* INSERT INTO blog_posts (...) VALUES (...): the row the insert adds to
\* the table t; id INTEGER PRIMARY KEY AUTOINCREMENT
InsertRow(t, blog, tagsJSON) ==
    [id |-> Len(t) + 1, title |-> blog.Title,
     meta_description |-> blog.MetaDescription,
     focus_keyword |-> blog.FocusKeyword, url_keyword |-> blog.UrlKeyword,
     image |-> blog.Image, tags |-> tagsJSON, topic |-> blog.Topic,
     service |-> blog.Service, industry |-> blog.Industry,
     priority |-> blog.Priority, description |-> blog.Description,
     created_at |-> CurrentTimestamp, updated_at |-> CurrentTimestamp]

\* an insert that writes over the newest row when there is one
ExecInsertOverwriting(t, blog, tagsJSON) ==
    IF t = <<>> THEN <<InsertRow(t, blog, tagsJSON)>>
    ELSE [t EXCEPT ![Len(t)] = [InsertRow(t, blog, tagsJSON) EXCEPT !.id = Len(t)]]

\* tx.Exec(`INSERT INTO blog_posts ...`) and tx.Commit(): the table after
\* the insert
ExecInsert(t, blog, tagsJSON) == Append(t, InsertRow(t, blog, tagsJSON))

\* the NULL of a column that was never given a value
Null == <<"NULL">>

\* rows.Scan(&post.ID, ..., &tagsJSON, ...) and the decoding of the tags:
\* the BlogPost of a row, whether Scan failed (a NULL cannot be stored in a
\* string; Scan stops at the first column it cannot store) and whether the
\* tags failed to decode (tagsJSON is "" when Scan stopped before the tags)
ScanRow(row) ==
    LET beforeTags == <<row.title, row.meta_description, row.focus_keyword,
                        row.url_keyword>>
        afterTags == <<row.topic, row.service, row.industry, row.priority,
                       row.description>>
        stopped == \E k \in 1..Len(beforeTags) : beforeTags[k] = Null
        tagsJSON == IF stopped \/ row.tags = Null THEN <<>> ELSE row.tags
        dec == IF tagsJSON # <<>> THEN jsonUnmarshal(tagsJSON)
               ELSE [ok |-> TRUE, val |-> NilSlice]
    IN  [tagsErr |-> ~dec.ok,
         scanErr |-> \/ stopped
                     \/ row.tags = Null
                     \/ \E k \in 1..Len(afterTags) : afterTags[k] = Null,
         post |-> [ID |-> row.id, Title |-> row.title,
                   MetaDescription |-> row.meta_description,
                   FocusKeyword |-> row.focus_keyword,
                   UrlKeyword |-> row.url_keyword, Image |-> row.image,
                   Tags |-> IF dec.ok THEN dec.val ELSE SliceOf(<<>>),
                   Topic |-> row.topic, Service |-> row.service,
                   Industry |-> row.industry, Priority |-> row.priority,
                   Description |-> row.description,
                   CreatedAt |-> row.created_at, UpdatedAt |-> row.updated_at]]

\* a lookup that ignores the white space around the key
FirstMatchTrimmed(t, kw, i) ==
    IF \E j \in i..Len(t) : t[j].url_keyword = TrimSpace(kw)
    THEN CHOOSE j \in i..Len(t) : t[j].url_keyword = TrimSpace(kw)
    ELSE 0

\* SELECT ... FROM blog_posts WHERE url_keyword = ?, read by QueryRow: the
\* first matching row, 0 for sql.ErrNoRows
RECURSIVE FirstMatch(_, _, _)
FirstMatch(t, kw, i) ==
    IF i > Len(t) THEN 0
    ELSE IF t[i].url_keyword = kw THEN i ELSE FirstMatch(t, kw, i + 1)

\* CASE priority WHEN 'maximum' THEN 1 WHEN 'high' THEN 2 WHEN 'normal' THEN 3 ELSE 4 END
PriorityRank(p) ==
    CASE p = StrMaximum -> 1 [] p = StrHigh -> 2 [] p = StrNormal -> 3 [] OTHER -> 4

RECURSIVE RowsOfRank(_, _)
RowsOfRank(t, k) ==
    IF t = <<>> THEN <<>>
    ELSE IF PriorityRank(Head(t).priority) = k
         THEN <<Head(t)>> \o RowsOfRank(Tail(t), k)
         ELSE RowsOfRank(Tail(t), k)

\* ORDER BY the rank: the rows of equal rank stay in rowid order
OrderByPriority(t) ==
    RowsOfRank(t, 1) \o RowsOfRank(t, 2) \o RowsOfRank(t, 3) \o RowsOfRank(t, 4)

\* LIMIT ? OFFSET ?: SQLite reads a negative offset as 0 and a negative
\* limit as no limit
LimitOffset(t, limit, offset) ==
    LET off == IF offset < 0 THEN 0 ELSE offset
        last == IF limit < 0 \/ off + limit > Len(t) THEN Len(t) ELSE off + limit
    IN  SubSeq(t, off + 1, last)

\* SELECT * FROM blog_posts [ORDER BY ...] LIMIT ? OFFSET ?
SelectPage(t, sortByPriority, limit, offset) ==
    LimitOffset(IF sortByPriority THEN OrderByPriority(t) ELSE t, limit, offset)

\* the loop over the rows of the page: posts = append(posts, post)
RECURSIVE ScanRows(_)
ScanRows(rows) ==
    IF rows = <<>> THEN <<>> ELSE <<ScanRow(Head(rows))>> \o ScanRows(Tail(rows))

\* ------------------------------------------------------------------------
\* The state.

VARIABLES
    posts,   \* the blog_posts table: the rows in rowid order
    files,   \* the upload directory: path -> file
    pc,      \* per client: where its request handler stands
    req,     \* per client: the request it sent last
    loc,     \* per client: the handler's local variables
    resp,    \* per client: the response to its last request
    mw       \* per client: the method and route of its last request and
             \* the headers the middleware set on the response

vars == <<posts, files, pc, req, loc, resp, mw>>

\* ------------------------------------------------------------------------
\* The requests the clients send.  A submission is named by the value it
\* carries in each field (the state keeps the names, Form gives the fields).

StrHello == <<"H", "e", "l", "l", "o">>

StrWorld == <<"W", "o", "r", "l", "d">>

KwA == <<"a">>

KwB == <<"b", "-", "2">>

StrImagePng == <<"i", "m", "a", "g", "e", "/", "p", "n", "g">>

StrTextPlain == <<"t", "e", "x", "t", "/", "p", "l", "a", "i", "n">>

TitleOf(n) ==
    CASE n = "ok" -> StrHello
      [] n = "pad" -> <<" ", "H", "i", "\t">>
      [] n = "blank" -> <<" ">>
      [] n = "max" -> Rep("a", MaxTitleLen)
      [] n = "long" -> Rep("a", MaxTitleLen + 1)
      [] OTHER -> <<>>

DescriptionOf(n) ==
    CASE n = "ok" -> StrWorld
      [] n = "pad" -> <<"D", "\n">>
      [] OTHER -> <<>>

UrlKeywordOf(n) ==
    CASE n = "a" -> KwA
      [] n = "b" -> KwB
      [] n = "pad-a" -> <<" ", "a", " ">>
      [] n = "bad" -> <<"a", "_", "b">>
      [] n = "inner-space" -> <<"a", " ", "b">>
      [] OTHER -> <<>>

PriorityOf(n) ==
    CASE n = "maximum" -> StrMaximum
      [] n = "high" -> StrHigh
      [] n = "normal" -> StrNormal
      [] n = "pad-high" -> <<" ", "h", "i", "g", "h", " ">>
      [] n = "blank" -> <<" ">>
      [] n = "bad" -> <<"u", "r", "g", "e", "n", "t">>
      [] n = "case" -> <<"H", "i", "g", "h">>
      [] OTHER -> <<>>

\* the "tags" fields of the submission, in submission order
TagsOf(n) ==
    CASE n = "two-fields" -> << <<"x", ",", " ", "y">>, <<"z">> >>
      [] n = "empties" -> << <<" ", ",", ",">>, <<>> >>
      [] n = "quote" -> << <<"q", "\"", "<">> >>
      [] n = "max" -> << Rep("g", MaxTagLen) >>
      [] n = "long" -> << <<"x", ",">> \o Rep("g", MaxTagLen + 1), <<"y">> >>
      [] n = "wide" -> << Rep("U+00E9", MaxTagLen \div 2 + 1) >>
      [] OTHER -> <<>>

MetaOf(n) ==
    CASE n = "pad" -> <<" ", "m">>
      [] n = "max" -> Rep("m", MaxMetaLen)
      [] n = "long" -> Rep("m", MaxMetaLen + 1)
      [] OTHER -> <<>>

NoImage ==
    [present |-> FALSE, filename |-> "", contentType |-> <<>>, size |-> 0, data |-> ""]

ImageOf(n) ==
    CASE n = "png" ->
            [present |-> TRUE, filename |-> "p.png", contentType |-> StrImagePng,
             size |-> 4, data |-> "png"]
      [] n = "text" ->
            [present |-> TRUE, filename |-> "p.png", contentType |-> StrTextPlain,
             size |-> 2, data |-> "txt"]
      [] n = "gif-part" ->
            [present |-> TRUE, filename |-> "p.png", contentType |-> <<"g", "i", "f">>,
             size |-> 3, data |-> "gif"]
      [] n = "untyped" ->
            [present |-> TRUE, filename |-> "p.png", contentType |-> <<>>,
             size |-> 1, data |-> "raw"]
      [] n = "huge" ->
            [present |-> TRUE, filename |-> "p.png", contentType |-> StrImagePng,
             size |-> maxFileSize + 1, data |-> "big"]
      [] OTHER -> NoImage

UploadPaths == {UploadPath("p.png")}

\* the multipart form a submission carries; extra: the four free-text fields
Form(n) ==
    [parseOk |-> n.parse = "ok", title |-> TitleOf(n.title),
     description |-> DescriptionOf(n.description),
     url_keyword |-> UrlKeywordOf(n.url_keyword),
     priority |-> PriorityOf(n.priority), tags |-> TagsOf(n.tags),
     meta_description |-> MetaOf(n.meta),
     focus_keyword |-> IF n.extra = "set" THEN <<"f", " ">> ELSE <<>>,
     topic |-> IF n.extra = "set" THEN <<" ", "t">> ELSE <<>>,
     service |-> IF n.extra = "set" THEN <<"s">> ELSE <<>>,
     industry |-> IF n.extra = "set" THEN <<"i">> ELSE <<>>,
     image |-> ImageOf(n.image)]

\* The spec's example submission: title, description and url_keyword only.
BaseForm ==
    [parse |-> "ok", title |-> "ok", description |-> "ok", url_keyword |-> "a",
     priority |-> "none", tags |-> "none", meta |-> "none", extra |-> "none",
     image |-> "none"]

\* a submission with every field filled and padded with white space
FullForm ==
    [parse |-> "ok", title |-> "pad", description |-> "pad", url_keyword |-> "pad-a",
     priority |-> "pad-high", tags |-> "two-fields", meta |-> "pad", extra |-> "set",
     image |-> "none"]

\* the submissions of the concurrent specification: two of the same
\* url_keyword, one with a file, one that the validator rejects
Forms ==
    {BaseForm, FullForm,
     [BaseForm EXCEPT !.url_keyword = "b", !.priority = "maximum", !.image = "png"],
     [BaseForm EXCEPT !.title = "blank"]}

\* the submissions of the list specification
ListForms ==
    {BaseForm,
     [BaseForm EXCEPT !.url_keyword = "b", !.priority = "maximum"],
     [FullForm EXCEPT !.url_keyword = "b"]}

\* the submissions that break the validator's rules, several at once
ViolationForms ==
    {[BaseForm EXCEPT !.title = t, !.description = d, !.url_keyword = k,
                      !.priority = p, !.tags = g, !.meta = m] :
        t \in {"ok", "blank", "long"}, d \in {"ok", "empty"},
        k \in {"a", "empty", "bad"}, p \in {"none", "bad"},
        g \in {"none", "long"}, m \in {"none", "long"}}

\* the submissions that differ from the example in one field
FieldForms ==
    {[BaseForm EXCEPT !.priority = p] :
        p \in {"blank", "high", "pad-high", "case", "maximum", "normal"}}
    \cup {[BaseForm EXCEPT !.tags = g] :
        g \in {"two-fields", "empties", "quote", "max", "wide"}}
    \cup {[BaseForm EXCEPT !.url_keyword = k] : k \in {"b", "pad-a", "inner-space"}}

\* the submissions of the validation specification
ValidationForms ==
    ViolationForms \cup FieldForms
    \cup {FullForm, [FullForm EXCEPT !.title = "max", !.meta = "max", !.image = "png"],
          [BaseForm EXCEPT !.image = "text"],
          [BaseForm EXCEPT !.parse = "malformed"]}

\* the submissions of the upload specification: files of every declared
\* type and size, with fields that pass the validator and with a blank title
UploadForms ==
    {[BaseForm EXCEPT !.image = i] : i \in {"png", "text", "gif-part", "untyped", "huge"}}
    \cup {[BaseForm EXCEPT !.url_keyword = "b", !.image = "png"],
          [BaseForm EXCEPT !.title = "blank", !.image = "text"]}

AllForms == Forms \cup ListForms \cup ValidationForms \cup UploadForms

\* the form of every submission (a table of Form)
FormOf == [n \in AllForms |-> Form(n)]

\* the fields of every submission, validated (a table of validateFields)
Validated == [n \in AllForms |-> validateFields(FormOf[n])]

\* err.Error() of a query that failed: what the driver reports
DriverErrorText == "database is locked"

\* fmt.Errorf("failed to check URL keyword uniqueness: %v", err)
UniquenessReadFailed == "failed to check URL keyword uniqueness: " \o DriverErrorText

\* a validator without its uniqueness rule
validateBlogPostNoUniqueness(n, t, dbOk) ==
    LET f == Validated[n] IN
    [err |-> f.err, blog |-> f.blog, read |-> f.err = ""]

\* a validator that reads the table before it checks the fields
validateBlogPostReadFirst(n, t, dbOk) ==
    LET f == Validated[n] IN
    IF ~dbOk
    THEN [err |-> UniquenessReadFailed, blog |-> f.blog,
          read |-> TRUE]
    ELSE IF UrlKeywordExists(t, f.blog.UrlKeyword)
    THEN [err |-> "url_keyword already exists", blog |-> f.blog, read |-> TRUE]
    ELSE [err |-> f.err, blog |-> f.blog, read |-> TRUE]

\* validateBlogPost(r) for the submission n on the table t; dbOk: the
\* existence query succeeds.  The result holds the error ("" for nil), the
\* blog, and whether the store was read.
validateBlogPost(n, t, dbOk) ==
    LET f == Validated[n] IN
    IF f.err # "" THEN [err |-> f.err, blog |-> f.blog, read |-> FALSE]
    ELSE IF ~dbOk
    THEN [err |-> UniquenessReadFailed, blog |-> f.blog,
          read |-> TRUE]
    ELSE IF UrlKeywordExists(t, f.blog.UrlKeyword)
    THEN [err |-> "url_keyword already exists", blog |-> f.blog, read |-> TRUE]
    ELSE [err |-> "", blog |-> f.blog, read |-> TRUE]

\* the keys of GET /blog/{urlKeyword}
Keys == {KwA, KwB, <<" ", "a", " ">>}

\* the page and pageSize query parameters
PageParams == {<<>>, <<"-", "1">>, <<"2">>, Itoa(MaxInt)}

PageSizeParams == {<<>>, <<"0">>, <<"1">>, <<"2">>, Itoa(MaxInt + 1)}

\* the sort query parameter
SortParams == {"", "priority"}

\* the parameters of two Lists that ask for neighbouring pages
PairPageParams ==
    {<<"1">>, <<"2">>, Itoa((MaxInt + 1) \div 2), Itoa((MaxInt + 1) \div 2 + 1)}

PairPageSizeParams == {<<"1">>, <<"4">>}

Clients == {"c1", "c2"}

\* ------------------------------------------------------------------------
\* The handlers.

NoReq == [op |-> "none"]

NoLoc == [op |-> "none"]

NoResp == [status |-> 0]

\* a handler is started by a client that waits for no response
Ready(c) == pc[c] \in {"idle", "done"}

\* the creates that passed the validation and have not inserted yet
InFlight == {c \in Clients : pc[c] \in {"upload", "insert"}}

UrlKeywords(t) == {t[i].url_keyword : i \in 1..Len(t)}

BlogUrl(kw) == <<"/", "b", "l", "o", "g", "/">> \o kw

\* createBlogHandler up to the end of validateBlogPost: the form is parsed
\* and validated (the validator's read of the table included); a rejected
\* submission is answered 400, an accepted one goes on to the upload or to
\* the insert.  History kept beside the handler's locals: kwsAtCheck, the
\* url_keywords stored when the validator ran; read, whether the validator
\* read the table; and in the response, stage, grew (rows added), rows
\* (rows stored when the response was written) and failed (whether the
\* storage or the file system failed).
CreateValidate(c, forms) ==
    /\ Ready(c)
    /\ \E n \in forms :
       \E dbOk \in IF FormOf[n].parseOk /\ Validated[n].err = "" THEN BOOLEAN ELSE {TRUE} :
         LET r == FormOf[n]
             v == validateBlogPost(n, posts, dbOk)
             ghost == [op |-> "create", kwsAtCheck |-> UrlKeywords(posts),
                       read |-> r.parseOk /\ v.read]
         IN  /\ req' = [req EXCEPT ![c] = [op |-> "create", form |-> n]]
             /\ IF ~r.parseOk
                THEN /\ pc' = [pc EXCEPT ![c] = "done"]
                     /\ loc' = [loc EXCEPT ![c] = ghost]
                     /\ resp' = [resp EXCEPT ![c] =
                            [status |-> 400, error |-> "Failed to parse form data",
                             stage |-> "parse", grew |-> 0, rows |-> Len(posts),
                             failed |-> FALSE]]
                ELSE IF v.err # ""
                THEN /\ pc' = [pc EXCEPT ![c] = "done"]
                     /\ loc' = [loc EXCEPT ![c] = ghost]
                     /\ resp' = [resp EXCEPT ![c] =
                            [status |-> 400, error |-> v.err, stage |-> "validate",
                             grew |-> 0, rows |-> Len(posts), failed |-> ~dbOk]]
                ELSE /\ Len(posts) + Cardinality(InFlight \ {c}) < MaxPosts
                     /\ pc' = [pc EXCEPT ![c] =
                                  IF r.image.present THEN "upload" ELSE "insert"]
                     /\ loc' = [loc EXCEPT ![c] = ghost @@ [blog |-> v.blog]]
                     /\ resp' = [resp EXCEPT ![c] = NoResp]
    /\ UNCHANGED <<posts, files>>

\* createBlogHandler, the file upload: r.FormFile("image") found a file
CreateUpload(c) ==
    /\ pc[c] = "upload"
    /\ \E o \in UploadOutcomes(FormOf[req[c].form].image) :
         LET f == validateAndSaveFile(FormOf[req[c].form].image, files, o) IN
         /\ files' = f.fs
         /\ IF f.err # ""
            THEN /\ pc' = [pc EXCEPT ![c] = "done"]
                 /\ resp' = [resp EXCEPT ![c] =
                        [status |-> 400, error |-> "Invalid file: " \o f.err,
                         stage |-> "upload", grew |-> 0, rows |-> Len(posts),
                         failed |-> f.failed]]
                 /\ loc' = loc
            ELSE /\ pc' = [pc EXCEPT ![c] = "insert"]
                 /\ loc' = [loc EXCEPT ![c].blog.Image = f.path]
                 /\ resp' = resp
    /\ UNCHANGED <<posts, req>>

\* createBlogHandler from json.Marshal(blog.Tags) on: the insert in its
\* transaction (dbOk: Begin, Exec and Commit succeed), the removal of the
\* uploaded file when it fails (removeOk: os.Remove succeeds), and the
\* response.  History: racing, the clients whose create had passed the
\* validator and had not inserted yet; removed, whether os.Remove succeeded.
CreateInsert(c) ==
    /\ pc[c] = "insert"
    /\ \E dbOk \in BOOLEAN :
       \E removeOk \in IF ~dbOk /\ loc[c].blog.Image # "" THEN BOOLEAN ELSE {TRUE} :
         LET blog == loc[c].blog
             row == InsertRow(posts, blog, jsonMarshal(blog.Tags))
         IN  /\ pc' = [pc EXCEPT ![c] = "done"]
             /\ loc' = [loc EXCEPT ![c] = @ @@ [racing |-> InFlight \ {c}]]
             /\ IF dbOk
                THEN /\ posts' = ExecInsert(posts, blog, jsonMarshal(blog.Tags))
                     /\ files' = files
                     /\ resp' = [resp EXCEPT ![c] =
                            [status |-> 201, error |-> "",
                             message |-> "Blog post created successfully",
                             url |-> BlogUrl(blog.UrlKeyword), id |-> row.id,
                             image |-> blog.Image, tags |-> blog.Tags,
                             stage |-> "insert", grew |-> 1, rows |-> Len(posts) + 1,
                             failed |-> FALSE]]
                ELSE /\ posts' = posts
                     /\ files' = IF blog.Image # ""
                                 THEN RemoveFile(files, blog.Image, removeOk)
                                 ELSE files
                     /\ resp' = [resp EXCEPT ![c] =
                            [status |-> 500, error |-> "Failed to create blog post",
                             stage |-> "insert", grew |-> 0, rows |-> Len(posts),
                             removed |-> removeOk, failed |-> TRUE]]
    /\ UNCHANGED req

\* blogHandler: GET /blog/{urlKeyword} (dbOk: the query succeeds).  History:
\* rows, the rows stored; failed, whether the storage failed.
GetOne(c) ==
    /\ Ready(c)
    /\ \E key \in Keys, dbOk \in BOOLEAN :
         LET i == FirstMatch(posts, key, 1)
             s == ScanRow(posts[i])
         IN  /\ req' = [req EXCEPT ![c] = [op |-> "get", key |-> key]]
             /\ resp' = [resp EXCEPT ![c] =
                    IF ~dbOk \/ (i # 0 /\ s.scanErr)
                    THEN [status |-> 500, error |-> "Database error", rows |-> Len(posts),
                          failed |-> TRUE]
                    ELSE IF i = 0
                    THEN [status |-> 404, error |-> "Blog post not found",
                          rows |-> Len(posts), failed |-> FALSE]
                    ELSE [status |-> IF s.tagsErr THEN 500 ELSE 200,
                          error |-> IF s.tagsErr THEN "Error unmarshaling tags" ELSE "",
                          blog |-> s.post,
                          seoData |-> [Context |-> "https://schema.org",
                                       Type |-> "BlogPosting",
                                       Headline |-> s.post.Title,
                                       Keywords |-> s.post.FocusKeyword,
                                       Image |-> s.post.Image,
                                       URL |-> BlogUrl(s.post.UrlKeyword)],
                          canonical |-> BlogUrl(s.post.UrlKeyword),
                          rows |-> Len(posts), failed |-> FALSE]]
    /\ pc' = [pc EXCEPT ![c] = "done"]
    /\ loc' = [loc EXCEPT ![c] = NoLoc]
    /\ UNCHANGED <<posts, files>>

\* xml.EscapeText, as the encoder applies it to the text of an element
XmlEscapeChar(ch) ==
    CASE ch = "&" -> <<"&", "a", "m", "p", ";">>
      [] ch = "<" -> <<"&", "l", "t", ";">>
      [] ch = ">" -> <<"&", "g", "t", ";">>
      [] ch = "\"" -> <<"&", "#", "3", "4", ";">>
      [] ch = "'" -> <<"&", "#", "3", "9", ";">>
      [] ch = "\t" -> <<"&", "#", "x", "9", ";">>
      [] ch = "\n" -> <<"&", "#", "x", "A", ";">>
      [] ch = "\r" -> <<"&", "#", "x", "D", ";">>
      [] OTHER -> <<ch>>

RECURSIVE XmlEscape(_)
XmlEscape(s) == IF s = <<>> THEN <<>> ELSE XmlEscapeChar(Head(s)) \o XmlEscape(Tail(s))

\* a sitemap entry without the "/blog/" before the url_keyword
SitemapUrlBare(row) ==
    [Loc |-> row.url_keyword, Change |-> <<"w", "e", "e", "k", "l", "y">>,
     Priority |-> row.priority]

\* URL{Loc: "/blog/" + urlKeyword, Change: "weekly", Priority: priority}
SitemapUrl(row) ==
    [Loc |-> BlogUrl(row.url_keyword), Change |-> <<"w", "e", "e", "k", "l", "y">>,
     Priority |-> row.priority]

\* the <url> element the encoder writes for a URL
XmlUrl(u) ==
    [loc |-> XmlEscape(u.Loc), changefreq |-> XmlEscape(u.Change),
     priority |-> XmlEscape(u.Priority)]

\* sitemapHandler: GET /sitemap.xml (dbOk: the query succeeds; n: the rows
\* read before rows.Next() returns false, which it does at the end of the
\* table or when the storage fails, and rows.Err() is not read); the rows
\* read are scanned and appended to urls, a row whose url_keyword or
\* priority is NULL failing its Scan and being passed over, and the <urlset>
\* is encoded.
\* History: rows, the rows stored; cut, whether the storage failed in the
\* loop; failed, whether the storage failed at all.
Sitemap(c) ==
    /\ Ready(c)
    /\ \E dbOk \in BOOLEAN :
       \E n \in IF dbOk THEN 0..Len(posts) ELSE {0} :
         LET scanned == SelectSeq(SubSeq(posts, 1, n),
                            LAMBDA row : row.url_keyword # Null /\ row.priority # Null)
         IN
         resp' = [resp EXCEPT ![c] =
             IF ~dbOk
             THEN [status |-> 500, error |-> "Could not generate sitemap",
                   rows |-> Len(posts), cut |-> FALSE, failed |-> TRUE]
             ELSE [status |-> 200, error |-> "",
                   urlset |-> [i \in 1..Len(scanned) |-> XmlUrl(SitemapUrl(scanned[i]))],
                   rows |-> Len(posts), cut |-> n < Len(posts),
                   failed |-> n < Len(posts)]]
    /\ req' = [req EXCEPT ![c] = [op |-> "sitemap"]]
    /\ pc' = [pc EXCEPT ![c] = "done"]
    /\ loc' = [loc EXCEPT ![c] = NoLoc]
    /\ UNCHANGED <<posts, files>>

\* listBlogsHandler up to the count, for a request whose parameters are
\* drawn from pages, sizes and sorts: the parameters are parsed and the
\* posts are counted (dbOk: the count succeeds)
ListCountOf(c, pages, sizes, sorts) ==
    /\ Ready(c)
    /\ \E p \in pages, ps \in sizes, sort \in sorts, dbOk \in BOOLEAN :
         LET page0 == Atoi(p)
             pageSize0 == Atoi(ps)
             page == IF page0 < 1 THEN 1 ELSE page0
             pageSize == IF pageSize0 < 1 THEN DefaultPageSize ELSE pageSize0
         IN  /\ req' = [req EXCEPT ![c] =
                    [op |-> "list", page |-> p, pageSize |-> ps, sort |-> sort]]
             /\ IF dbOk
                THEN /\ pc' = [pc EXCEPT ![c] = "query"]
                     /\ loc' = [loc EXCEPT ![c] =
                            [op |-> "list", page |-> page, pageSize |-> pageSize,
                             sortByPriority |-> (sort = "priority"),
                             totalPosts |-> Len(posts)]]
                     /\ resp' = [resp EXCEPT ![c] = NoResp]
                ELSE /\ pc' = [pc EXCEPT ![c] = "done"]
                     /\ loc' = [loc EXCEPT ![c] = NoLoc]
                     /\ resp' = [resp EXCEPT ![c] =
                            [status |-> 500, error |-> "Could not count blog posts",
                             failed |-> TRUE]]
    /\ UNCHANGED <<posts, files>>

ListCount(c) == ListCountOf(c, PageParams, PageSizeParams, SortParams)

\* listBlogsHandler from the query on (dbOk: the query succeeds): the page
\* of rows is read and scanned, totalPages is computed, the response is sent
ListQuery(c) ==
    /\ pc[c] = "query"
    /\ \E dbOk \in BOOLEAN :
         LET l == loc[c]
             offset == Wrap((l.page - 1) * l.pageSize)
             scanned == ScanRows(SelectPage(posts, l.sortByPriority, l.pageSize, offset))
             tagsErr == \E i \in 1..Len(scanned) : scanned[i].tagsErr
             kept == SelectSeq(scanned, LAMBDA sc : ~sc.scanErr)
             totalPages == Quo(Wrap(Wrap(l.totalPosts + l.pageSize) - 1), l.pageSize)
         IN  resp' = [resp EXCEPT ![c] =
                 IF ~dbOk
                 THEN [status |-> 500, error |-> "Could not fetch blog posts",
                       failed |-> TRUE]
                 ELSE [status |-> IF tagsErr THEN 500 ELSE 200,
                       error |-> IF tagsErr THEN "Error unmarshaling tags" ELSE "",
                       posts |-> [isNil |-> kept = <<>>,
                                  elems |-> [i \in 1..Len(kept) |-> kept[i].post]],
                       totalPosts |-> l.totalPosts, page |-> l.page,
                       pageSize |-> l.pageSize, totalPages |-> totalPages,
                       offset |-> offset, rows |-> Len(posts), failed |-> FALSE]]
    /\ pc' = [pc EXCEPT ![c] = "done"]
    /\ UNCHANGED <<posts, files, req, loc>>

\* ------------------------------------------------------------------------
\* The middleware (corsMiddleware) and the routes.

NoMw == [method |-> "", route |-> "", headers |-> {}]

\* w.Header().Set(...): the four cross-origin headers
CorsHeaders ==
    {<<"Access-Control-Allow-Origin", "*">>,
     <<"Access-Control-Allow-Methods", "GET, POST, PUT, DELETE, OPTIONS">>,
     <<"Access-Control-Allow-Headers", "Content-Type, Authorization">>,
     <<"Access-Control-Allow-Credentials", "true">>}

\* a middleware that hands the preflight to the handler as well
corsMiddlewareNoPreflight(c, route, methods, next) ==
    \E method \in methods :
        /\ mw' = [mw EXCEPT ![c] =
                      [method |-> method, route |-> route, headers |-> CorsHeaders]]
        /\ next

\* corsMiddleware(next) on the route it is registered for, for a request of
\* client c whose method is one of methods: the headers are set, an OPTIONS
\* request is answered 200 at once, any other is handed to next
corsMiddleware(c, route, methods, next) ==
    \E method \in methods :
        /\ mw' = [mw EXCEPT ![c] =
                      [method |-> method, route |-> route, headers |-> CorsHeaders]]
        /\ IF method = "OPTIONS"
           THEN /\ Ready(c)
                /\ req' = [req EXCEPT ![c] = [op |-> "options"]]
                /\ resp' = [resp EXCEPT ![c] =
                       [status |-> 200, error |-> "", body |-> "", failed |-> FALSE]]
                /\ pc' = [pc EXCEPT ![c] = "done"]
                /\ loc' = [loc EXCEPT ![c] = NoLoc]
                /\ UNCHANGED <<posts, files>>
           ELSE next

\* a later step of a handler that the middleware has called
Continue(next) == next /\ UNCHANGED mw

\* http.HandleFunc("/blog", corsMiddleware(createBlogHandler))
RouteBlog(c, methods, forms) ==
    corsMiddleware(c, "/blog", methods, CreateValidate(c, forms))

\* http.HandleFunc("/blog/", corsMiddleware(blogHandler))
RouteBlogOne(c, methods) == corsMiddleware(c, "/blog/", methods, GetOne(c))

\* http.HandleFunc("/blogs", corsMiddleware(listBlogsHandler))
RouteBlogs(c, methods, pages, sizes, sorts) ==
    corsMiddleware(c, "/blogs", methods, ListCountOf(c, pages, sizes, sorts))

\* http.HandleFunc("/sitemap.xml", corsMiddleware(sitemapHandler))
RouteSitemap(c, methods) == corsMiddleware(c, "/sitemap.xml", methods, Sitemap(c))

\* http.HandleFunc("/swagger/", ...) and http.HandleFunc("/uploads/", ...):
\* the preflight of the two routes whose handlers serve files
RouteStatic(c, route) == corsMiddleware(c, route, {"OPTIONS"}, FALSE)

\* ------------------------------------------------------------------------
\* The specification: the clients send their requests concurrently.

Init ==
    /\ posts = <<>>
    /\ files = [p \in UploadPaths |-> NoFile]
    /\ pc = [c \in Clients |-> "idle"]
    /\ req = [c \in Clients |-> NoReq]
    /\ loc = [c \in Clients |-> NoLoc]
    /\ resp = [c \in Clients |-> NoResp]
    /\ mw = [c \in Clients |-> NoMw]

\* the rows another program may have written: one as Create writes it, one
\* whose tags are no JSON array of strings, one whose meta_description is
\* NULL and one whose topic is NULL
LegacyRow(kind, id) ==
    LET row == [InsertRow(<<>>, [Validated[BaseForm].blog EXCEPT
                                    !.UrlKeyword = <<"l">> \o Itoa(id)],
                          <<"[", "]">>)
                EXCEPT !.id = id]
    IN  CASE kind = "good" -> row
          [] kind = "bad-tags" -> [row EXCEPT !.tags = <<"o", "o", "p", "s">>]
          [] kind = "null-meta" -> [row EXCEPT !.meta_description = Null]
          [] kind = "null-topic" -> [row EXCEPT !.topic = Null,
                                                !.priority = StrMaximum]

LegacyKinds == {"good", "bad-tags", "null-meta", "null-topic"}

\* the tables of up to MaxPosts such rows
LegacyTables ==
    UNION {{[i \in 1..n |-> LegacyRow(k[i], i)] : k \in [1..n -> LegacyKinds]} :
              n \in 0..MaxPosts}

\* CREATE TABLE IF NOT EXISTS: the table that is there is kept as it is
InitLegacy ==
    /\ posts \in LegacyTables
    /\ files = [p \in UploadPaths |-> NoFile]
    /\ pc = [c \in Clients |-> "idle"]
    /\ req = [c \in Clients |-> NoReq]
    /\ loc = [c \in Clients |-> NoLoc]
    /\ resp = [c \in Clients |-> NoResp]
    /\ mw = [c \in Clients |-> NoMw]

\* the clients create posts and read them back, concurrently
Next ==
    \E c \in Clients :
        \/ RouteBlog(c, {"POST"}, Forms)
        \/ Continue(CreateUpload(c))
        \/ Continue(CreateInsert(c))
        \/ RouteBlogOne(c, {"GET"})
        \/ RouteSitemap(c, {"GET"})

Spec == Init /\ [][Next]_vars

\* one client lists the posts while the other creates them
NextList ==
    \/ RouteBlogs("c1", {"GET"}, PageParams, PageSizeParams, SortParams)
    \/ Continue(ListQuery("c1"))
    \/ RouteBlog("c2", {"POST"}, ListForms)
    \/ Continue(CreateInsert("c2"))

SpecList == Init /\ [][NextList]_vars

\* both clients list the posts by priority, page by page, while one of them
\* creates posts in between
NextPages ==
    \/ RouteBlog("c1", {"POST"}, ListForms)
    \/ Continue(CreateInsert("c1"))
    \/ \E c \in Clients :
           \/ RouteBlogs(c, {"GET"}, PairPageParams, PairPageSizeParams, {"priority"})
           \/ Continue(ListQuery(c))

SpecPages == Init /\ [][NextPages]_vars

\* one client sends its submissions one after the other
NextValidation ==
    \/ RouteBlog("c1", {"POST"}, ValidationForms)
    \/ Continue(CreateUpload("c1"))
    \/ Continue(CreateInsert("c1"))

SpecValidation == Init /\ [][NextValidation]_vars

\* one client sends its submissions with files one after the other
NextUpload ==
    \/ RouteBlog("c1", {"POST"}, UploadForms)
    \/ Continue(CreateUpload("c1"))
    \/ Continue(CreateInsert("c1"))

SpecUpload == Init /\ [][NextUpload]_vars

\* the server is started on a database file that holds rows written by
\* another program; one client reads them through the three reading handlers
NextLegacy ==
    \/ RouteBlogs("c1", {"GET"}, PageParams, PageSizeParams, SortParams)
    \/ Continue(ListQuery("c1"))
    \/ RouteBlogOne("c1", {"GET"})
    \/ RouteSitemap("c1", {"GET"})

SpecLegacy == InitLegacy /\ [][NextLegacy]_vars

\* one client reads the posts, through each of the three reading handlers,
\* while the other creates them
NextReads ==
    \/ RouteBlogs("c1", {"GET"}, PageParams, PageSizeParams, SortParams)
    \/ Continue(ListQuery("c1"))
    \/ RouteBlogOne("c1", {"GET"})
    \/ RouteSitemap("c1", {"GET"})
    \/ RouteBlog("c2", {"POST"}, ListForms)
    \/ Continue(CreateInsert("c2"))

SpecReads == Init /\ [][NextReads]_vars

\* one client sends its requests, preflights among them, to every route
NextCors ==
    \/ RouteBlog("c1", {"POST", "OPTIONS"}, Forms)
    \/ Continue(CreateUpload("c1"))
    \/ Continue(CreateInsert("c1"))
    \/ RouteBlogOne("c1", {"GET", "OPTIONS"})
    \/ RouteBlogs("c1", {"GET", "OPTIONS"}, PairPageParams, PairPageSizeParams, SortParams)
    \/ Continue(ListQuery("c1"))
    \/ RouteSitemap("c1", {"GET", "OPTIONS"})
    \/ \E route \in {"/swagger/", "/uploads/"} : RouteStatic("c1", route)

SpecCors == Init /\ [][NextCors]_vars

\* ------------------------------------------------------------------------
\* The properties: what the requests and their responses are compared to.

\* client c sent a Create whose form was parsed
SentCreate(c) == req[c].op = "create" /\ FormOf[req[c].form].parseOk

\* the Create of client c was answered
AnsweredCreate(c) == SentCreate(c) /\ pc[c] = "done"

\* the Create of client c was answered 201
Created(c) == AnsweredCreate(c) /\ resp[c].status = 201

\* the Create of client c was answered 400 and added no row
Rejected(c) == AnsweredCreate(c) /\ resp[c].status = 400 /\ resp[c].grew = 0

\* the characters a url_keyword may hold
SlugChars ==
    {"a", "b", "c", "d", "e", "f", "g", "h", "i", "j", "k", "l", "m",
     "n", "o", "p", "q", "r", "s", "t", "u", "v", "w", "x", "y", "z",
     "A", "B", "C", "D", "E", "F", "G", "H", "I", "J", "K", "L", "M",
     "N", "O", "P", "Q", "R", "S", "T", "U", "V", "W", "X", "Y", "Z",
     "0", "1", "2", "3", "4", "5", "6", "7", "8", "9", "-"}

HasForeignChar(s) == \E i \in 1..Len(s) : s[i] \notin SlugChars

ThreePriorities ==
    {<<"m", "a", "x", "i", "m", "u", "m">>, <<"h", "i", "g", "h">>,
     <<"n", "o", "r", "m", "a", "l">>}

\* the submitted tags: the fields in submission order, each split on commas,
\* each piece trimmed, the empty pieces dropped
SubmittedTags(rawTags) ==
    LET pieces == TagPieces(rawTags)
        trimmed == [i \in 1..Len(pieces) |-> TrimSpace(pieces[i])]
    IN  SelectSeq(trimmed, LAMBDA piece : piece # <<>>)

\* the submitted value of every field of a submission, without the white
\* space around it
SubmittedOf ==
    [n \in AllForms |->
        LET f == FormOf[n] IN
        [title |-> TrimSpace(f.title), description |-> TrimSpace(f.description),
         url_keyword |-> TrimSpace(f.url_keyword),
         meta_description |-> TrimSpace(f.meta_description),
         focus_keyword |-> TrimSpace(f.focus_keyword), topic |-> TrimSpace(f.topic),
         service |-> TrimSpace(f.service), industry |-> TrimSpace(f.industry),
         priority |-> TrimSpace(f.priority), tags |-> SubmittedTags(f.tags)]]

\* what client c submitted
Submitted(c) == SubmittedOf[req[c].form]

\* the tags a row stores, decoded
StoredTags(row) == jsonUnmarshal(row.tags)

\* the validation rules before the uniqueness rule, in the order of the
\* specification, on the submitted values v; lengths are counted as len()
\* counts them
RuleViolated(k, v) ==
    CASE k = 1 -> v.title = <<>>
      [] k = 2 -> v.description = <<>>
      [] k = 3 -> v.url_keyword = <<>>
      [] k = 4 -> HasForeignChar(v.url_keyword)
      [] k = 5 -> v.priority # <<>> /\ v.priority \notin ThreePriorities
      [] k = 6 -> \E i \in 1..Len(v.tags) : ByteLen(v.tags[i]) > 50
      [] k = 7 -> ByteLen(v.meta_description) > 160
      [] k = 8 -> ByteLen(v.title) > 100

RuleReason(k) ==
    CASE k = 1 -> "title is required"
      [] k = 2 -> "description is required"
      [] k = 3 -> "url_keyword is required"
      [] k = 4 -> "url_keyword must contain only letters, numbers, and hyphens"
      [] k = 5 -> "invalid priority value: must be maximum, high, or normal"
      [] k = 6 -> "tag length cannot exceed 50 characters"
      [] k = 7 -> "meta description cannot exceed 160 characters"
      [] k = 8 -> "title cannot exceed 100 characters"

\* the rules every submission violates
ViolatedRulesOf ==
    [n \in AllForms |-> {k \in 1..8 : RuleViolated(k, SubmittedOf[n])}]

ViolatedRules(c) == ViolatedRulesOf[req[c].form]

\* the first violated rule, 0 when the rules before the uniqueness rule pass
FirstViolated(c) ==
    IF ViolatedRules(c) = {} THEN 0
    ELSE CHOOSE k \in ViolatedRules(c) : \A j \in ViolatedRules(c) : k <= j

\* the url_keyword of the Create of client c was stored when it was validated
Duplicate(c) == Submitted(c).url_keyword \in loc[c].kwsAtCheck

\* ceil(a / b) for a >= 0 and b >= 1: the least k with k * b >= a
Ceil(a, b) == CHOOSE k \in 0..a : k * b >= a /\ \A j \in 0..(k - 1) : j * b < a

\* the List of client c was answered, and not with a failure of the storage
AnsweredList(c) ==
    /\ req[c].op = "list"
    /\ pc[c] = "done"
    /\ resp[c].error \notin {"Could not count blog posts", "Could not fetch blog posts"}

\* ------------------------------------------------------------------------
\* C1 .. C4: create, read back, uniqueness (specification Spec).

\* C1: a Get-one that follows a Create answered 201, with no other Create in
\* between, responds 200 with the submitted title, description, url_keyword,
\* meta_description, focus_keyword, topic, service, industry, priority
\* ('normal' when omitted) and tags (in order, the empty sequence when none
\* were submitted).  The submitted values are taken without the white space
\* around them, and a Get-one that the storage failed is left aside.
C1_RoundTrip ==
    \A c \in Clients, d \in Clients :
        ( /\ Created(c)
          /\ req[d].op = "get" /\ pc[d] = "done"
          /\ req[d].key = Submitted(c).url_keyword
          /\ resp[d].rows = resp[c].rows
          /\ resp[d].error # "Database error" )
        => /\ resp[d].status = 200
           /\ resp[d].blog.Title = Submitted(c).title
           /\ resp[d].blog.Description = Submitted(c).description
           /\ resp[d].blog.UrlKeyword = Submitted(c).url_keyword
           /\ resp[d].blog.MetaDescription = Submitted(c).meta_description
           /\ resp[d].blog.FocusKeyword = Submitted(c).focus_keyword
           /\ resp[d].blog.Topic = Submitted(c).topic
           /\ resp[d].blog.Service = Submitted(c).service
           /\ resp[d].blog.Industry = Submitted(c).industry
           /\ resp[d].blog.Priority =
                  IF Submitted(c).priority = <<>> THEN <<"n", "o", "r", "m", "a", "l">>
                  ELSE Submitted(c).priority
           /\ ~resp[d].blog.Tags.isNil
           /\ resp[d].blog.Tags.elems = Submitted(c).tags

\* C3: no two stored posts have the same url_keyword
C3_UniqueUrlKeywords ==
    \A i \in 1..Len(posts), j \in 1..Len(posts) :
        i # j => posts[i].url_keyword # posts[j].url_keyword

\* C4: when two Creates with the same url_keyword both pass the validator
\* before either inserts and one of them commits and responds 201, the other
\* responds 500 and the table holds one row with that url_keyword
C4_SecondCreateFails ==
    \A c \in Clients, d \in Clients :
        ( /\ c # d
          /\ Created(c)
          /\ d \in loc[c].racing
          /\ AnsweredCreate(d) /\ resp[d].stage = "insert"
          /\ Submitted(d).url_keyword = Submitted(c).url_keyword )
        => /\ resp[d].status = 500
           /\ Cardinality({i \in 1..Len(posts) :
                  posts[i].url_keyword = Submitted(c).url_keyword}) = 1

\* ------------------------------------------------------------------------
\* C2, C5 .. C8: the validator (specification SpecValidation).

\* C2: a Create whose url_keyword, without the white space around it, is the
\* url_keyword of a stored post is answered 400 and adds no row; the reason
\* is 'url_keyword already exists' when no earlier rule is violated and the
\* read of the table succeeds
C2_DuplicateRejected ==
    \A c \in Clients :
        (SentCreate(c) /\ Duplicate(c))
        => /\ Rejected(c)
           /\ (FirstViolated(c) = 0
               /\ resp[c].error # UniquenessReadFailed)
              => resp[c].error = "url_keyword already exists"

\* a duplicate was rejected for being one
C2_Witness ==
    \E c \in Clients :
        /\ SentCreate(c) /\ Duplicate(c) /\ Rejected(c)
        /\ resp[c].error = "url_keyword already exists"
        /\ Len(posts) = 1

\* C2 as stated: a Create whose url_keyword is the url_keyword of a stored
\* post is always answered 400 'url_keyword already exists' and adds no row
C2_AsStated ==
    \A c \in Clients :
        (SentCreate(c) /\ FormOf[req[c].form].url_keyword \in loc[c].kwsAtCheck)
        => /\ Rejected(c)
           /\ resp[c].error = "url_keyword already exists"

\* C5: a Create whose url_keyword, without the white space around it, holds
\* a character outside [a-zA-Z0-9-] is answered 400 and adds no row; every
\* stored url_keyword is non-empty and holds letters, digits and hyphens only
C5_UrlKeywordFormat ==
    /\ \A c \in Clients :
           (SentCreate(c) /\ HasForeignChar(Submitted(c).url_keyword)) => Rejected(c)
    /\ \A i \in 1..Len(posts) :
           posts[i].url_keyword # <<>> /\ ~HasForeignChar(posts[i].url_keyword)

\* a url_keyword with a foreign character inside was rejected, next to a stored post
C5_Witness ==
    \E c \in Clients :
        /\ SentCreate(c) /\ HasForeignChar(Submitted(c).url_keyword) /\ Rejected(c)
        /\ resp[c].error = "url_keyword must contain only letters, numbers, and hyphens"
        /\ Len(posts) >= 1

\* C5 as stated: a Create whose submitted url_keyword holds a character
\* outside [a-zA-Z0-9-] is always answered 400 and adds no row
C5_AsStated ==
    \A c \in Clients :
        (SentCreate(c) /\ HasForeignChar(FormOf[req[c].form].url_keyword)) => Rejected(c)

\* C6: every stored priority is 'maximum', 'high' or 'normal'; an accepted
\* Create stores 'normal' when its priority is omitted or blank and stores
\* the priority without the white space around it otherwise; a Create whose
\* priority, without the white space around it, is another value is answered
\* 400 and adds no row
C6_Priority ==
    /\ \A i \in 1..Len(posts) : posts[i].priority \in ThreePriorities
    /\ \A c \in Clients :
           /\ Created(c) =>
                 posts[resp[c].id].priority =
                     IF Submitted(c).priority = <<>> THEN <<"n", "o", "r", "m", "a", "l">>
                     ELSE Submitted(c).priority
           /\ ( /\ SentCreate(c)
                /\ Submitted(c).priority # <<>>
                /\ Submitted(c).priority \notin ThreePriorities ) => Rejected(c)

\* a blank priority was stored as 'normal'
C6_Witness ==
    \E c \in Clients :
        /\ Created(c)
        /\ FormOf[req[c].form].priority = <<" ">>
        /\ posts[resp[c].id].priority = <<"n", "o", "r", "m", "a", "l">>

\* C6 as stated: a Create whose priority is neither omitted, blank nor one
\* of the three values is answered 400 and adds no row
C6_AsStated ==
    \A c \in Clients :
        ( /\ SentCreate(c)
          /\ Submitted(c).priority # <<>>
          /\ FormOf[req[c].form].priority \notin ThreePriorities ) => Rejected(c)

\* C7: the tags an accepted Create stores are, in order, the pieces of the
\* submitted 'tags' fields: split on commas, trimmed, the empty ones dropped;
\* no stored tag is empty or longer than 50 characters
C7_StoredTags ==
    /\ \A c \in Clients :
           Created(c) =>
               /\ StoredTags(posts[resp[c].id]).ok
               /\ StoredTags(posts[resp[c].id]).val.elems = Submitted(c).tags
    /\ \A i \in 1..Len(posts) :
           LET tags == StoredTags(posts[i]).val.elems IN
           \A k \in 1..Len(tags) : tags[k] # <<>> /\ Len(tags[k]) <= 50

\* two 'tags' fields, one of them comma-joined, were stored as three tags
C7_Witness ==
    \E c \in Clients :
        /\ Created(c)
        /\ Len(FormOf[req[c].form].tags) = 2
        /\ StoredTags(posts[resp[c].id]).val.elems = << <<"x">>, <<"y">>, <<"z">> >>

\* C8: the reason of a rejected Create is the one of the first violated rule
\* in the order title required, description required, url_keyword required,
\* url_keyword format, priority, tag length, meta_description length, title
\* length, url_keyword uniqueness; the table is read only when the rules
\* before the uniqueness rule pass
C8_FirstViolatedRule ==
    \A c \in Clients :
        SentCreate(c) =>
            IF FirstViolated(c) # 0
            THEN /\ Rejected(c)
                 /\ resp[c].error = RuleReason(FirstViolated(c))
                 /\ ~loc[c].read
            ELSE /\ loc[c].read
                 /\ (Rejected(c) /\ resp[c].stage = "validate")
                    => /\ resp[c].error \in {"url_keyword already exists",
                                             UniquenessReadFailed}
                       /\ resp[c].error = "url_keyword already exists" => Duplicate(c)

\* a Create that violates five rules at once was rejected for the first of them
C8_Witness ==
    \E c \in Clients :
        /\ SentCreate(c) /\ Rejected(c)
        /\ ViolatedRules(c) = {4, 5, 6, 7, 8}
        /\ resp[c].error = "url_keyword must contain only letters, numbers, and hyphens"

\* ------------------------------------------------------------------------
\* C9, C10: the pagination (specification SpecList).

\* C9: in every List response, totalPages is ceil(totalPosts / pageSize) for
\* the totalPosts and the pageSize of the response
C9_TotalPages ==
    \A c \in Clients :
        AnsweredList(c) =>
            resp[c].totalPages = Ceil(resp[c].totalPosts, resp[c].pageSize)

\* C10: a List whose page is beyond ceil(totalPosts / pageSize) responds 200
\* with no posts and the pagination of the request.  A List that the storage
\* failed, or that another Create ran into between the count and the query,
\* is left aside.
C10_PageBeyondRange ==
    \A c \in Clients :
        ( /\ AnsweredList(c)
          /\ resp[c].rows = resp[c].totalPosts
          /\ resp[c].page > Ceil(resp[c].totalPosts, resp[c].pageSize) )
        => /\ resp[c].status = 200
           /\ resp[c].posts.elems = <<>>
           /\ resp[c].page = loc[c].page
           /\ resp[c].pageSize = loc[c].pageSize

\* ------------------------------------------------------------------------
\* C11: the priority sort (specification SpecPages).

\* the rank of a priority: maximum 1, high 2, normal 3, anything else 4
RankOf(priority) ==
    IF priority = <<"m", "a", "x", "i", "m", "u", "m">> THEN 1
    ELSE IF priority = <<"h", "i", "g", "h">> THEN 2
    ELSE IF priority = <<"n", "o", "r", "m", "a", "l">> THEN 3
    ELSE 4

\* the List of client c was sorted by priority and answered 200, and no
\* Create ran into it between the count and the query
SortedList(c) ==
    /\ AnsweredList(c)
    /\ req[c].sort = "priority"
    /\ resp[c].status = 200
    /\ resp[c].rows = resp[c].totalPosts

\* C11: a List with sort=priority returns its posts in non-decreasing rank
\* (maximum 1, high 2, normal 3, anything else 4), and of two such Lists of
\* the same table with the same pageSize, every post on page k has a rank no
\* greater than every post on page k+1
C11_PrioritySort ==
    /\ \A c \in Clients :
           SortedList(c) =>
               \A i \in 1..Len(resp[c].posts.elems), j \in 1..Len(resp[c].posts.elems) :
                   i < j => RankOf(resp[c].posts.elems[i].Priority)
                            <= RankOf(resp[c].posts.elems[j].Priority)
    /\ \A c \in Clients, d \in Clients :
           ( /\ SortedList(c) /\ SortedList(d)
             /\ resp[c].rows = resp[d].rows
             /\ resp[c].pageSize = resp[d].pageSize
             /\ resp[d].page = resp[c].page + 1 )
           => \A i \in 1..Len(resp[c].posts.elems), j \in 1..Len(resp[d].posts.elems) :
                  RankOf(resp[c].posts.elems[i].Priority)
                  <= RankOf(resp[d].posts.elems[j].Priority)

\* ------------------------------------------------------------------------
\* C12: the sitemap (specification Spec).

\* the Sitemap of client c was answered 200, and the storage did not fail
\* while the rows were read
AnsweredSitemap(c) ==
    /\ req[c].op = "sitemap"
    /\ pc[c] = "done"
    /\ resp[c].status = 200
    /\ ~resp[c].cut

AllowedTypes ==
    {<<"i", "m", "a", "g", "e", "/", "j", "p", "e", "g">>,
     <<"i", "m", "a", "g", "e", "/", "p", "n", "g">>,
     <<"i", "m", "a", "g", "e", "/", "g", "i", "f">>}

\* the file client c attached
Attached(c) == FormOf[req[c].form].image

\* some file of the upload directory holds bytes of the upload named data
Holds(data) ==
    \E p \in UploadPaths :
        \E k \in 1..Len(files[p].data) : files[p].data[k].src = data

\* C13: a Create whose attached file declares a type that is not a member of
\* {image/jpeg, image/png, image/gif}, or is larger than 10 MiB, is answered
\* 400 and its file is not written
C13_AllowList ==
    \A c \in Clients :
        ( /\ SentCreate(c)
          /\ Attached(c).present
          /\ pc[c] # "upload"
          /\ \/ Attached(c).contentType \notin AllowedTypes
             \/ Attached(c).size > 10 * 1024 * 1024 )
        => Rejected(c) /\ ~Holds(Attached(c).data)

\* ------------------------------------------------------------------------
\* C14: Get-one, found or not (specification Spec).

\* the Get-one of client c was answered
AnsweredGet(c) == req[c].op = "get" /\ pc[c] = "done"

\* the rows that held the key of the Get-one of client c when it was answered
Matches(c) == {i \in 1..resp[c].rows : posts[i].url_keyword = req[c].key}

\* C14: a Get-one responds 500 when the storage fails and only then, 404
\* when no stored post has exactly its key, and 200 with a post of that
\* url_keyword when one is stored
C14_GetOne ==
    \A c \in Clients :
        AnsweredGet(c) =>
            /\ resp[c].status = 500 <=> resp[c].failed
            /\ ~resp[c].failed =>
                   IF Matches(c) = {}
                   THEN resp[c].status = 404
                   ELSE /\ resp[c].status = 200
                        /\ resp[c].blog.ID \in {posts[i].id : i \in Matches(c)}
                        /\ resp[c].blog.UrlKeyword = req[c].key

\* a key that differs from a stored url_keyword by white space was not found
C14_Witness ==
    \E c \in Clients :
        /\ AnsweredGet(c)
        /\ req[c].key = <<" ", "a", " ">>
        /\ resp[c].status = 404
        /\ \E i \in 1..resp[c].rows : posts[i].url_keyword = <<"a">>

\* ------------------------------------------------------------------------
\* C15: the file of a Create whose insert fails (specification Spec).

\* the step in which the Create of client c, its file saved, fails its insert
InsertFails(c) ==
    /\ pc[c] = "insert"
    /\ loc[c].blog.Image # ""
    /\ pc'[c] = "done"
    /\ resp'[c].status = 500

\* C15: when a Create has saved its file and the insert fails, the response
\* is 500, no row is added, and the file at the path this request saved is
\* removed; when the removal itself fails the upload directory is left as it
\* is and nothing more is reported
C15_CompensatingDelete ==
    [][\A c \in Clients :
           InsertFails(c) =>
               /\ posts' = posts
               /\ resp'[c].error = "Failed to create blog post"
               /\ IF resp'[c].removed
                  THEN ~files'[loc[c].blog.Image].exists
                  ELSE files' = files]_vars

\* a Create saved its file, failed its insert and removed the file
C15_Witness ==
    \E c \in Clients :
        /\ AnsweredCreate(c)
        /\ resp[c].status = 500
        /\ loc[c].blog.Image = "uploads/p.png"
        /\ resp[c].removed
        /\ ~files["uploads/p.png"].exists

\* C15 as stated: when a Create has saved its file and the insert fails, no
\* row is added and the file no longer exists
C15_AsStated ==
    [][\A c \in Clients :
           InsertFails(c) =>
               /\ posts' = posts
               /\ ~files'[loc[c].blog.Image].exists]_vars

\* ------------------------------------------------------------------------
\* C16: how a failure of the storage or of the file system is answered
\* (specification Spec).

\* the request of client c is answered
Answered(c) == pc[c] = "done" /\ req[c].op # "none"

\* the fixed messages of the handlers' 500 responses
GenericMessages ==
    {"Failed to create blog post", "Failed to process tags", "Database error",
     "Error unmarshaling tags", "Could not count blog posts",
     "Could not fetch blog posts", "Could not generate sitemap"}

\* C16: a request that met a failure of the storage or of the file system
\* is answered 500 with one of the fixed messages, and a 400 response is
\* given only to a request that met no such failure
C16_FailuresAre500 ==
    \A c \in Clients :
        Answered(c) =>
            /\ resp[c].failed => /\ resp[c].status = 500
                                 /\ resp[c].error \in GenericMessages
            /\ resp[c].status = 400 => ~resp[c].failed

\* ------------------------------------------------------------------------
\* C17: a Create adds one complete row or none (specification Spec).

\* the step in which the Create of client c is answered
CreateAnswered(c) ==
    /\ req'[c].op = "create"
    /\ pc'[c] = "done"
    /\ <<pc[c], req[c], resp[c]>> # <<pc'[c], req'[c], resp'[c]>>

\* the row holds every field that the submission n carries, the path of
\* its file, an id and both timestamps
CompleteRow(row, n) ==
    LET v == SubmittedOf[n] IN
    /\ row.title = v.title
    /\ row.description = v.description
    /\ row.url_keyword = v.url_keyword
    /\ row.meta_description = v.meta_description
    /\ row.focus_keyword = v.focus_keyword
    /\ row.topic = v.topic
    /\ row.service = v.service
    /\ row.industry = v.industry
    /\ row.priority = (IF v.priority = <<>> THEN StrNormal ELSE v.priority)
    /\ StoredTags(row).ok /\ StoredTags(row).val.elems = v.tags
    /\ row.image = (IF FormOf[n].image.present
                    THEN UploadPath(FormOf[n].image.filename) ELSE "")
    /\ row.id >= 1
    /\ row.created_at # "" /\ row.updated_at # ""

\* C17: the step that answers a Create with 201 appends exactly one row,
\* complete and of the id in the response; the step that answers it
\* otherwise answers 400 or 500 and leaves the table as it is; and the table
\* changes in no step but one that answers a Create with 201
C17_OneRowOrNone ==
    [][/\ \A c \in Clients :
              CreateAnswered(c) =>
                  IF resp'[c].status = 201
                  THEN /\ Len(posts') = Len(posts) + 1
                       /\ SubSeq(posts', 1, Len(posts)) = posts
                       /\ posts'[Len(posts')].id = resp'[c].id
                       /\ \A i \in 1..Len(posts) : posts[i].id # resp'[c].id
                       /\ CompleteRow(posts'[Len(posts')], req'[c].form)
                  ELSE /\ resp'[c].status \in {400, 500}
                       /\ posts' = posts
       /\ posts' # posts =>
              \E c \in Clients : CreateAnswered(c) /\ resp'[c].status = 201]_vars

\* a Create with every field filled was answered 201 and its row is stored
C17_Witness ==
    \E c \in Clients :
        /\ Created(c)
        /\ req[c].form = FullForm
        /\ posts[resp[c].id].topic = <<"t">>
        /\ \E d \in Clients : AnsweredCreate(d) /\ resp[d].status = 500

\* ------------------------------------------------------------------------
\* C18: stored posts are never changed or removed (specification SpecReads).

\* a step of a Get-one, a List or a Sitemap of client c
ReadStep(c) ==
    /\ req'[c].op \in {"get", "list", "sitemap"}
    /\ <<pc[c], req[c], resp[c]>> # <<pc'[c], req'[c], resp'[c]>>

\* C18: in every step every stored row stays where it is with its id and
\* all its fields, so no row is removed and the number of rows does not
\* decrease; and a step of Get-one, List or Sitemap leaves the table as it is
C18_StoredPostsImmutable ==
    [][/\ Len(posts') >= Len(posts)
       /\ \A i \in 1..Len(posts) : posts'[i] = posts[i]
       /\ \A c \in Clients : ReadStep(c) => posts' = posts]_vars

\* a post was stored, a Sitemap read it, another post was stored after
\* that, and the first post is still the first row
C18_Witness ==
    /\ Len(posts) = 2
    /\ posts[1].id = 1 /\ posts[1].url_keyword = <<"a">>
    /\ req["c1"].op = "sitemap" /\ pc["c1"] = "done"
    /\ resp["c1"].status = 200 /\ resp["c1"].rows = 1

\* ------------------------------------------------------------------------
\* C19: what a Create that is answered 400 leaves behind (specification Spec).

\* C19: the step that answers a Create with 400 leaves the table and the
\* upload directory as they are, and so does the step of a Create that goes
\* on from the validation to the upload or to the insert
C19_RejectedChangesNothing ==
    [][\A c \in Clients :
           /\ (CreateAnswered(c) /\ resp'[c].status = 400)
                  => posts' = posts /\ files' = files
           /\ (req'[c].op = "create" /\ pc[c] \in {"idle", "done"}
               /\ pc'[c] \in {"upload", "insert"})
                  => posts' = posts /\ files' = files]_vars

\* ------------------------------------------------------------------------
\* C20: the effective page and pageSize (specification SpecList).

\* the number a string of digits denotes
RECURSIVE DecimalValue(_, _)
DecimalValue(s, acc) ==
    IF s = <<>> THEN acc ELSE DecimalValue(Tail(s), acc * 10 + DigitVal(Head(s)))

\* the value a query parameter gives: the number it denotes when it is a
\* decimal numeral, with or without a sign, and 0 (no value) otherwise
GivenValue(s) ==
    LET body == IF s # <<>> /\ Head(s) \in {"-", "+"} THEN Tail(s) ELSE s IN
    IF body = <<>> \/ \E i \in 1..Len(body) : body[i] \notin Digits THEN 0
    ELSE IF Head(s) = "-" THEN 0 - DecimalValue(body, 0)
    ELSE DecimalValue(body, 0)

\* C20: the page and the pageSize of a List's response are never below 1;
\* they are the values given when those are 1 or more, and 1 and 10 otherwise
C20_EffectivePage ==
    \A c \in Clients :
        (AnsweredList(c) /\ resp[c].status = 200) =>
            /\ resp[c].page >= 1
            /\ resp[c].pageSize >= 1
            /\ resp[c].page = (IF GivenValue(req[c].page) >= 1
                               THEN GivenValue(req[c].page) ELSE 1)
            /\ resp[c].pageSize = (IF GivenValue(req[c].pageSize) >= 1
                                   THEN GivenValue(req[c].pageSize)
                                   ELSE DefaultPageSize)

\* ------------------------------------------------------------------------
\* C21: List over malformed rows (specification SpecLegacy).

\* a row whose columns cannot be read or whose tags cannot be decoded
Malformed(row) ==
    \/ \E col \in {row.title, row.meta_description, row.focus_keyword,
                   row.url_keyword, row.tags, row.topic, row.service,
                   row.industry, row.priority, row.description} : col = Null
    \/ row.tags # <<>> /\ ~jsonUnmarshal(row.tags).ok

\* the rows of the page the List of client c asked for
PageRows(c) ==
    SelectPage(posts, req[c].sort = "priority", resp[c].pageSize, resp[c].offset)

\* C21: a List that met no failure of the storage is answered 200, and its
\* posts are the rows of its page that are not malformed, in their order
C21_MalformedSkipped ==
    \A c \in Clients :
        (req[c].op = "list" /\ pc[c] = "done" /\ ~resp[c].failed) =>
            LET well == SelectSeq(PageRows(c), LAMBDA row : ~Malformed(row)) IN
            /\ resp[c].status = 200
            /\ Len(resp[c].posts.elems) = Len(well)
            /\ \A i \in 1..Len(well) : resp[c].posts.elems[i].ID = well[i].id

\* ------------------------------------------------------------------------
\* C22: the preflight and the cross-origin headers (specification SpecCors).

\* the step in which a request of client c reaches the server
RequestArrives(c) ==
    /\ Ready(c)
    /\ <<pc[c], req[c], resp[c], mw[c]>> # <<pc'[c], req'[c], resp'[c], mw'[c]>>

\* the requests the handler of a route takes
HandlerOp(route) ==
    CASE route = "/blog" -> "create"
      [] route = "/blog/" -> "get"
      [] route = "/blogs" -> "list"
      [] route = "/sitemap.xml" -> "sitemap"
      [] OTHER -> "static"

\* C22: an OPTIONS request is answered 200 with the cross-origin headers and
\* no body, its handler is not run, and the table and the upload directory
\* stay as they are; any other request gets the same headers and is taken by
\* the handler of its route; the headers stay until the response is complete
C22_Preflight ==
    [][\A c \in Clients :
           /\ RequestArrives(c) =>
                  /\ mw'[c].headers = CorsHeaders
                  /\ IF mw'[c].method = "OPTIONS"
                     THEN /\ req'[c].op = "options"
                          /\ pc'[c] = "done"
                          /\ resp'[c].status = 200 /\ resp'[c].body = ""
                          /\ posts' = posts /\ files' = files
                     ELSE req'[c].op = HandlerOp(mw'[c].route)
           /\ req'[c].op # "none" => mw'[c].headers = CorsHeaders]_vars

\* a preflight of /blog was answered while a post and its file were stored
C22_Witness ==
    /\ req["c1"].op = "options" /\ pc["c1"] = "done"
    /\ mw["c1"].route = "/blog" /\ resp["c1"].status = 200
    /\ Len(posts) = 1
    /\ files["uploads/p.png"].exists

\* ------------------------------------------------------------------------
\* C23: the count and the page of one List (specification SpecList).

\* C23: in every List response the posts before the page and the posts of
\* the page are together no more than the totalPosts of the same response
C23_OneSnapshot ==
    \A c \in Clients :
        (AnsweredList(c) /\ resp[c].status = 200) =>
            (resp[c].page - 1) * resp[c].pageSize + Len(resp[c].posts.elems)
                <= resp[c].totalPosts

\* ------------------------------------------------------------------------
\* C24: the files of the stored posts (specification Spec).

\* the files that were uploaded with a post of the url_keyword of row
UploadsOf(row) ==
    {FormOf[n].image : n \in {m \in Forms : /\ FormOf[m].image.present
                                            /\ Validated[m].blog.UrlKeyword = row.url_keyword}}

\* the file f holds the bytes of the upload img and nothing else
HoldsUpload(f, img) ==
    /\ f.exists
    /\ f.data = <<[src |-> img.data, from |-> 1, to |-> img.size]>>

\* C24: the image of every stored post is empty or the path of a file that
\* exists and holds the bytes uploaded with the post
C24_ImagesIntact ==
    \A i \in 1..Len(posts) :
        \/ posts[i].image = ""
        \/ \E img \in UploadsOf(posts[i]) : HoldsUpload(files[posts[i].image], img)

\* ------------------------------------------------------------------------
\* C25: the pages of a table that does not change (specification SpecList).

\* the rows of t by rank, the rows of one rank in insertion order
ByRank(t) ==
    SelectSeq(t, LAMBDA row : RankOf(row.priority) = 1)
    \o SelectSeq(t, LAMBDA row : RankOf(row.priority) = 2)
    \o SelectSeq(t, LAMBDA row : RankOf(row.priority) = 3)
    \o SelectSeq(t, LAMBDA row : RankOf(row.priority) = 4)

\* the k-th piece of size rows of the sequence s
Piece(s, k, size) ==
    SubSeq(s, (k - 1) * size + 1, IF k * size > Len(s) THEN Len(s) ELSE k * size)

\* C25: for a List of a table that no Create changed meanwhile, the pages
\* 1..totalPages reach the last stored post, and a page among them holds
\* its piece of the table, taken in insertion order or, with sort=priority,
\* by rank: so the pages together hold every post once, in that order
C25_PagesCoverTable ==
    \A c \in Clients :
        (AnsweredList(c) /\ resp[c].status = 200 /\ resp[c].rows = resp[c].totalPosts) =>
            LET t == SubSeq(posts, 1, resp[c].rows)
                ordered == IF req[c].sort = "priority" THEN ByRank(t) ELSE t
                piece == Piece(ordered, resp[c].page, resp[c].pageSize)
            IN  /\ resp[c].totalPages * resp[c].pageSize >= Len(t)
                /\ (resp[c].page <= resp[c].totalPages) =>
                       /\ Len(resp[c].posts.elems) = Len(piece)
                       /\ \A i \in 1..Len(piece) :
                              resp[c].posts.elems[i].ID = piece[i].id

\* ------------------------------------------------------------------------
\* C26: the arithmetic of List (specification SpecList).

\* C26: in every List response the offset given to the store is the product
\* (page - 1) * pageSize and is not negative, and totalPages is the quotient
\* of the sum totalPosts + pageSize - 1 by pageSize and is not negative
C26_NoWrapAround ==
    \A c \in Clients :
        (AnsweredList(c) /\ resp[c].status = 200) =>
            /\ resp[c].offset = (resp[c].page - 1) * resp[c].pageSize
            /\ resp[c].offset >= 0
            /\ resp[c].totalPages
                   = (resp[c].totalPosts + resp[c].pageSize - 1) \div resp[c].pageSize
            /\ resp[c].totalPages >= 0
====
